---- MODULE Spec2Model ----
(***************************************************************************)
(* Workspace acquisition of hodor (src/hodor/workspace.py).                *)
(*                                                                         *)
(* One invocation of setup_workspace is modelled as a sequential process   *)
(* whose steps are the external commands it runs (gh, glab, git, mkdir,    *)
(* mkdtemp).  Every command outcome the code distinguishes is a            *)
(* nondeterministic choice of the step that runs the command.              *)
(*                                                                         *)
(* Python values:                                                          *)
(*   - None is the string None below (no modelled value collides with it); *)
(*   - opaque strings (branch names, directories, SHAs) are TLA+ strings;  *)
(*   - strings the code inspects (project paths, remote URLs) are          *)
(*     sequences of one-character strings, NoneSeq standing for None.      *)
(*                                                                         *)
(* Around it, review_pr (src/hodor/agent.py) is a second sequential        *)
(* process: it parses pr_url, calls setup_workspace, prepares and runs the *)
(* agent, and releases the workspace.  The specifications share the        *)
(* variables: Spec (setup_workspace called on its own, any arguments),     *)
(* SpecParse (parse_pr_url and detect_platform applied to every URL of the *)
(* bounded set), SpecReview (one invocation of review_pr), SpecDetect      *)
(* (_detect_ci_workspace over every environment), SpecGitLab               *)
(* (setup_workspace for GitLab with the host given or not) and SpecOutput  *)
(* (parse_review_output of src/hodor/review_parser.py applied to every     *)
(* text of the bounded set).                                               *)
(***************************************************************************)
EXTENDS Integers, Sequences, FiniteSets, TLC

\* ------------------------------------------------------------------ bounds

\* Pull/merge request numbers range over 1..MaxPr.
MaxPr == 2

\* URL paths have at most MaxPath segments, or MaxPath segments behind at
\* most MaxGroups leading group segments.
MaxPath == 4
MaxGroups == 2
\* The longest review text, in tokens.
MaxText == 3

\* ------------------------------------------------------------ Python values

None == "<None>"
NoneSeq == <<"<None>">>

\* Python truthiness of an optional str.
Truthy(s) == s # None /\ s # ""
TruthySeq(s) == s # NoneSeq /\ s # <<>>

\* a or b, for optional strs.
Or(a, b) == IF Truthy(a) THEN a ELSE b

\* s.endswith(suffix)
EndsWith(s, suffix) ==
    /\ Len(suffix) <= Len(s)
    /\ SubSeq(s, Len(s) - Len(suffix) + 1, Len(s)) = suffix

\* needle in s (substring test)
Contains(s, needle) ==
    \E i \in 1..(Len(s) + 1) :
        /\ i + Len(needle) - 1 <= Len(s)
        /\ SubSeq(s, i, i + Len(needle) - 1) = needle

\* --------------------------------------------------------------- the inputs

\* The repository under review: owner "a", repo "b".
Owner == <<"a">>
Repo == <<"b">>

\* f"{owner}/{repo}"
ExpectedPath == Owner \o <<"/">> \o Repo

Platforms == {"github", "gitlab", "bitbucket"}
PrNumbers == 1..MaxPr
BaseBranches == {None, "", "dev"}

\* Directories of the file system: the caller's working_dir, the directory
\* mkdtemp creates, and the directories the CI runners provide.
WorkingDir == "wd"
TempDir == "tmp"
GitLabCiDir == "ci"
GitHubWsDir == "ghws"
Dirs == {WorkingDir, TempDir, GitLabCiDir, GitHubWsDir}

\* Contents of a directory.  kind: absent, empty, files (non-empty, no .git),
\* repo (has .git).  url: the origin remote of a repo (NoneSeq: no origin).
\* head: the request number whose source revision is checked out, 0 when the
\* working tree is at no request's source revision (e.g. the default branch).
Absent == [kind |-> "absent", url |-> NoneSeq, head |-> 0]
Empty == [kind |-> "empty", url |-> NoneSeq, head |-> 0]
Files == [kind |-> "files", url |-> NoneSeq, head |-> 0]
RepoDir(u, h) == [kind |-> "repo", url |-> u, head |-> h]

UrlPrefix == <<"h", "/">>
\* https://host/a/b.git, https://host/z/b.git (another repository)
SameUrl == UrlPrefix \o ExpectedPath
OtherUrl == UrlPrefix \o <<"z", "/">> \o Repo
\* https://host/ga/b.git: another repository, whose URL has "a/b" in it
LongerOwnerUrl == UrlPrefix \o <<"g">> \o ExpectedPath

WorkingDirStates ==
    {Absent, Empty, Files, RepoDir(NoneSeq, 0), RepoDir(OtherUrl, 0),
     RepoDir(LongerOwnerUrl, 0), RepoDir(SameUrl, 0)}

\* Environment variables of a GitLab CI job.  CI_MERGE_REQUEST_IID is the
\* merge request the runner checked out (0: the variable is unset).
NoGitLabEnv ==
    [GITLAB_CI |-> None, CI_PROJECT_DIR |-> None, CI_PROJECT_PATH |-> NoneSeq,
     CI_MERGE_REQUEST_IID |-> 0,
     CI_MERGE_REQUEST_TARGET_BRANCH_NAME |-> None,
     CI_MERGE_REQUEST_DIFF_BASE_SHA |-> None]

\* a/b, g/a/b (nested group), ga/b and z/b (other projects)
NestedPath == <<"g", "/">> \o ExpectedPath
OtherPaths == {<<"g">> \o ExpectedPath, <<"z", "/">> \o Repo}

\* Jobs of the project under review, in every combination of the merge
\* request variables, and jobs with an empty project directory or of another
\* project.
GitLabEnvs ==
    {NoGitLabEnv}
        \cup [GITLAB_CI : {"true"},
              CI_PROJECT_DIR : {GitLabCiDir},
              CI_PROJECT_PATH : {ExpectedPath, NestedPath},
              CI_MERGE_REQUEST_IID : 0..MaxPr,
              CI_MERGE_REQUEST_TARGET_BRANCH_NAME : {None, "", "ci_target"},
              CI_MERGE_REQUEST_DIFF_BASE_SHA : {None, "sha"}]
        \cup [GITLAB_CI : {"true"},
              CI_PROJECT_DIR : {""},
              CI_PROJECT_PATH : {ExpectedPath},
              CI_MERGE_REQUEST_IID : {1},
              CI_MERGE_REQUEST_TARGET_BRANCH_NAME : {"ci_target"},
              CI_MERGE_REQUEST_DIFF_BASE_SHA : {"sha"}]
        \cup [GITLAB_CI : {"true"},
              CI_PROJECT_DIR : {GitLabCiDir},
              CI_PROJECT_PATH : OtherPaths,
              CI_MERGE_REQUEST_IID : {1},
              CI_MERGE_REQUEST_TARGET_BRANCH_NAME : {"ci_target"},
              CI_MERGE_REQUEST_DIFF_BASE_SHA : {"sha"}]

\* Environment variables of a GitHub Actions job.
NoGitHubEnv ==
    [GITHUB_ACTIONS |-> None, GITHUB_WORKSPACE |-> None,
     GITHUB_REPOSITORY |-> NoneSeq, GITHUB_BASE_REF |-> None]

GitHubEnvs ==
    {NoGitHubEnv}
        \cup [GITHUB_ACTIONS : {"true"},
              GITHUB_WORKSPACE : {GitHubWsDir},
              GITHUB_REPOSITORY : {ExpectedPath},
              GITHUB_BASE_REF : {None, "", "gh_base"}]
        \cup [GITHUB_ACTIONS : {"true"},
              GITHUB_WORKSPACE : {None},
              GITHUB_REPOSITORY : {ExpectedPath},
              GITHUB_BASE_REF : {"gh_base"}]
        \cup [GITHUB_ACTIONS : {"true"},
              GITHUB_WORKSPACE : {GitHubWsDir},
              GITHUB_REPOSITORY : {NestedPath},
              GITHUB_BASE_REF : {"gh_base"}]

\* A process runs under one CI system at most; the variables of a GitLab job
\* that does not match may still be followed by GitHub's.
Envs ==
    {[gl |-> g, gh |-> NoGitHubEnv] : g \in GitLabEnvs}
        \cup {[gl |-> NoGitLabEnv, gh |-> h] : h \in GitHubEnvs}
        \cup {[gl |-> g, gh |-> h] :
                g \in {x \in GitLabEnvs : x.CI_PROJECT_PATH \in OtherPaths},
                h \in GitHubEnvs}

\* ------------------------------------------------------- request URLs

\* A URL is https://<host><path>.  The host is a sequence of labels and
\* dots, the path a sequence of segments, each written after a "/"; the
\* empty segment is what "//" or a trailing "/" leaves between slashes.
\* Substring tests of the code are made on these tokens, so a word counts
\* as contained when it is a whole label or segment.
Hosts ==
    {<<"github", ".", "com">>,
     <<"gitlab", ".", "example", ".", "com">>,
     <<"example", ".", "com">>}

\* Path segments: names, the literals the parser looks for, decimal
\* numbers, and the empty segment.
Segments == {"a", "b", "pull", "merge_requests", "-", "1", "0", ""}
GroupSegments == {"a"}

Url(h, segs) == [host |-> h, segs |-> segs]
NoUrl == Url(<<>>, <<>>)

\* The text of the path: "/" and the segment, for each segment.
RECURSIVE PathText(_)
PathText(segs) ==
    IF segs = <<>> THEN <<>>
    ELSE (IF Head(segs) = "" THEN <<"/">> ELSE <<"/", Head(segs)>>)
             \o PathText(Tail(segs))

\* pr_url as text.
UrlText(u) == <<"https://">> \o u.host \o PathText(u.segs)

\* urlparse(pr_url).hostname / .netloc: the host (no port, no user).
Hostname(u) == u.host

\* [p for p in parsed.path.split("/") if p]
PathParts(u) == SelectSeq(u.segs, LAMBDA p : p # "")

\* int(s): the decimal literals of the model; anything else is a ValueError.
IntLiterals == ("0" :> 0) @@ ("1" :> 1) @@ ("2" :> 2)
IsIntLiteral(s) == s \in DOMAIN IntLiterals

\* "/".join(parts)
RECURSIVE Join(_)
Join(parts) ==
    IF parts = <<>> THEN <<>>
    ELSE IF Len(parts) = 1 THEN <<parts[1]>>
    ELSE <<parts[1], "/">> \o Join(Tail(parts))

\* list.index(x): the first position of x (1-based here).
Index(parts, x) ==
    CHOOSE i \in DOMAIN parts :
        parts[i] = x /\ \A j \in 1..(i - 1) : parts[j] # x

\* What parse_pr_url gives: the tuple (owner, repo, pr_number, host), or the
\* ValueError it raises.  shape records which branch of the parser built the
\* tuple.
NotParsed ==
    [ok |-> FALSE, owner |-> <<>>, repo |-> <<>>, pr_number |-> 0,
     host |-> <<>>, shape |-> "none", error |-> None]
ParseError(e) == [NotParsed EXCEPT !.error = e]
Parsed(o, r, n, h, sh) ==
    IF IsIntLiteral(n)
    THEN [ok |-> TRUE, owner |-> o, repo |-> r, pr_number |-> IntLiterals[n],
          host |-> h, shape |-> sh, error |-> None]
    ELSE ParseError("invalid literal for int()")

\* agent.py:121-158
parse_pr_url(u) ==
    LET path_parts == PathParts(u)
        host == u.host
    IN  IF Len(path_parts) >= 4 /\ path_parts[3] = "pull"
        THEN Parsed(<<path_parts[1]>>, <<path_parts[2]>>, path_parts[4],
                    host, "github")
        ELSE IF \E i \in DOMAIN path_parts : path_parts[i] = "merge_requests"
        THEN LET m == Index(path_parts, "merge_requests")
                 mr_index == m - 1
             IN  IF mr_index < 2 \/ mr_index + 1 >= Len(path_parts)
                 THEN ParseError("Invalid GitLab MR URL format")
                 ELSE IF path_parts[m - 1] # "-"
                 THEN ParseError("Missing '/-/' segment before merge_requests")
                 ELSE LET owner_parts == SubSeq(path_parts, 1, mr_index - 2)
                      IN  Parsed(IF owner_parts # <<>>
                                 THEN Join(owner_parts)
                                 ELSE <<path_parts[1]>>,
                                 <<path_parts[m - 2]>>, path_parts[m + 1],
                                 host, "gitlab")
        ELSE ParseError("Invalid PR/MR URL format")

\* Mutant: any merge_requests segment of the path marks a GitLab URL.
detect_platform_by_segment(u) ==
    IF \/ \E i \in DOMAIN PathParts(u) : PathParts(u)[i] = "merge_requests"
       \/ Contains(Hostname(u), <<"gitlab">>)
    THEN "gitlab"
    ELSE "github"

\* agent.py:105-118
detect_platform(u) ==
    LET text == UrlText(u)
        hostname == Hostname(u)
    IN  IF \/ Contains(text, <<"/", "-", "/", "merge_requests", "/">>)
           \/ Contains(hostname, <<"gitlab">>)
        THEN "gitlab"
        ELSE IF \/ Contains(text, <<"/", "pull", "/">>)
                \/ Contains(hostname, <<"github">>)
        THEN "github"
        ELSE "github"

VARIABLES
    platform,       \* argument platform
    pr_number,      \* argument pr_number
    base_branch,    \* argument base_branch
    working_dir,    \* argument working_dir (None or WorkingDir)
    reuse,          \* argument reuse
    env,            \* os.environ
    fs,             \* the file system: Dirs -> contents
    cwd,            \* the process's current directory ("orig" or a directory)
    pc,             \* position in setup_workspace
    workspace,      \* local workspace
    ci_workspace,   \* local ci_workspace
    detected_target_branch,
    detected_diff_base_sha,
    source_branch,  \* _setup_gitlab_workspace's source_branch
    target_branch,  \* the platform helper's base/target branch
    pr_view,        \* what gh pr view gave ("none" before it ran)
    origin,         \* which branch of lines 142-164 ran
    cmds,           \* the external commands run so far, in order
    result,         \* the returned tuple, or the raised error
    pr_url,         \* review_pr's argument pr_url
    cleanup,        \* review_pr's argument cleanup
    workspace_dir,  \* review_pr's argument workspace_dir
    rpc,            \* position in review_pr
    parsed,         \* what parse_pr_url gave
    rv_platform,    \* review_pr's local platform (detect_platform)
    rv_workspace,   \* review_pr's local workspace
    rv_error,       \* the exception review_pr raised (None: none)
    cleanup_log,    \* the calls of cleanup_workspace, in order
    host,           \* argument host (NoneSeq: not given)
    env_gitlab_host,\* os.environ's GITLAB_HOST (NoneSeq: unset)
    used_host,      \* the host the clone and the metadata query went to
    review_text,    \* parse_review_output's argument text
    review_event    \* what parse_review_output gave

vars ==
    <<platform, pr_number, base_branch, working_dir, reuse, env, fs, cwd, pc,
      workspace, ci_workspace, detected_target_branch, detected_diff_base_sha,
      source_branch, target_branch, pr_view, origin, cmds, result,
      pr_url, cleanup, workspace_dir, rpc, parsed, rv_platform, rv_workspace,
      rv_error, cleanup_log, host, env_gitlab_host, used_host, review_text,
      review_event>>

inputs ==
    <<platform, pr_number, base_branch, working_dir, reuse, env, host,
      env_gitlab_host>>

\* The state of review_pr, which setup_workspace does not touch.
review ==
    <<pr_url, cleanup, workspace_dir, rpc, parsed, rv_platform, rv_workspace,
      rv_error, cleanup_log, review_text, review_event>>

\* parse_review_output has given nothing yet.
NoEvent ==
    [kind |-> "none", tier |-> 0, findings |-> 0,
     overall_explanation |-> <<>>, error |-> None]

\* The review text is not parsed before review_pr has returned it.
NoOutput ==
    /\ review_text = <<>>
    /\ review_event = NoEvent

\* The value a finished invocation leaves: the returned tuple or the error.
NoResult ==
    [kind |-> "none", path |-> None, target_branch |-> None,
     diff_base_sha |-> None, error |-> None]
Returned(p, t, d) ==
    [kind |-> "returned", path |-> p, target_branch |-> t,
     diff_base_sha |-> d, error |-> None]
Raised(e) ==
    [kind |-> "raised", path |-> None, target_branch |-> None,
     diff_base_sha |-> None, error |-> e]

\* subprocess.run(...) appended to the log of commands, with its outcome.
Ran(c, ok) == Append(cmds, [cmd |-> c, ok |-> ok])

\* ------------------------------------------------------ _detect_ci_workspace

\* Mutant: the project path must equal owner/repo (nested groups unmatched).
GitLabCiMatchesExactOnly(e, owner, repo) ==
    /\ e.gl.GITLAB_CI = "true"
    /\ Truthy(e.gl.CI_PROJECT_DIR)
    /\ TruthySeq(e.gl.CI_PROJECT_PATH)
    /\ e.gl.CI_PROJECT_PATH = owner \o <<"/">> \o repo

\* Mutant: any project path whose text ends with owner/repo matches, also
\* across a segment boundary (ga/b for a/b).
GitLabCiMatchesAnySuffix(e, owner, repo) ==
    /\ e.gl.GITLAB_CI = "true"
    /\ Truthy(e.gl.CI_PROJECT_DIR)
    /\ TruthySeq(e.gl.CI_PROJECT_PATH)
    /\ EndsWith(e.gl.CI_PROJECT_PATH, owner \o <<"/">> \o repo)

\* workspace.py:41-51, the GitLab CI branch's conditions.
GitLabCiMatches(e, owner, repo) ==
    /\ e.gl.GITLAB_CI = "true"
    /\ Truthy(e.gl.CI_PROJECT_DIR)
    /\ TruthySeq(e.gl.CI_PROJECT_PATH)
    /\ \/ e.gl.CI_PROJECT_PATH = owner \o <<"/">> \o repo
       \/ EndsWith(e.gl.CI_PROJECT_PATH, <<"/">> \o owner \o <<"/">> \o repo)

\* Mutant: a repository nested under a group matches as in the GitLab
\* branch.
GitHubActionsMatchesNested(e, owner, repo) ==
    /\ e.gh.GITHUB_ACTIONS = "true"
    /\ Truthy(e.gh.GITHUB_WORKSPACE)
    /\ TruthySeq(e.gh.GITHUB_REPOSITORY)
    /\ EndsWith(e.gh.GITHUB_REPOSITORY, <<"/">> \o owner \o <<"/">> \o repo)

\* workspace.py:59-66, the GitHub Actions branch's conditions.
GitHubActionsMatches(e, owner, repo) ==
    /\ e.gh.GITHUB_ACTIONS = "true"
    /\ Truthy(e.gh.GITHUB_WORKSPACE)
    /\ TruthySeq(e.gh.GITHUB_REPOSITORY)
    /\ e.gh.GITHUB_REPOSITORY = owner \o <<"/">> \o repo

\* Mutant: the GitHub Actions branch passes the diff base variable on too.
detect_ci_workspace_sha_everywhere(e, owner, repo) ==
    IF GitLabCiMatches(e, owner, repo)
    THEN <<e.gl.CI_PROJECT_DIR, e.gl.CI_MERGE_REQUEST_TARGET_BRANCH_NAME,
           e.gl.CI_MERGE_REQUEST_DIFF_BASE_SHA>>
    ELSE IF GitHubActionsMatches(e, owner, repo)
    THEN <<e.gh.GITHUB_WORKSPACE, e.gh.GITHUB_BASE_REF,
           e.gl.CI_MERGE_REQUEST_DIFF_BASE_SHA>>
    ELSE <<None, None, None>>

\* (workspace_path, target_branch, diff_base_sha)
detect_ci_workspace(e, owner, repo) ==
    IF GitLabCiMatches(e, owner, repo)
    THEN <<e.gl.CI_PROJECT_DIR, e.gl.CI_MERGE_REQUEST_TARGET_BRANCH_NAME,
           e.gl.CI_MERGE_REQUEST_DIFF_BASE_SHA>>
    ELSE IF GitHubActionsMatches(e, owner, repo)
    THEN <<e.gh.GITHUB_WORKSPACE, e.gh.GITHUB_BASE_REF, None>>
    ELSE <<None, None, None>>

\* ------------------------------------------------------------- _is_same_repo

\* Mutant: any directory with a .git entry is taken for the repository.
is_same_repo_any_git(dir, owner, repo) == dir.kind = "repo"

\* Mutant: the URL's path has to be "<owner>/<repo>" itself.
is_same_repo_whole_path(dir, owner, repo) ==
    /\ dir.kind = "repo"
    /\ dir.url = UrlPrefix \o owner \o <<"/">> \o repo

\* workspace.py:85-104: .git exists, git remote get-url origin succeeds, and
\* the URL contains "<owner>/<repo>".
is_same_repo(dir, owner, repo) ==
    /\ dir.kind = "repo"
    /\ dir.url # NoneSeq
    /\ Contains(dir.url, owner \o <<"/">> \o repo)

\* ----------------------------------------------------------------- the state

\* The directories the CI runners prepared: a clone of their project with the
\* job's merge request checked out.
InitFs(e, wd, ghHead) ==
    [d \in Dirs |->
        CASE d = WorkingDir -> wd
          [] d = TempDir -> Absent
          [] d = GitLabCiDir ->
                IF e.gl.GITLAB_CI = "true"
                THEN RepoDir(UrlPrefix \o e.gl.CI_PROJECT_PATH,
                             e.gl.CI_MERGE_REQUEST_IID)
                ELSE Absent
          [] d = GitHubWsDir ->
                IF e.gh.GITHUB_ACTIONS = "true"
                THEN RepoDir(UrlPrefix \o e.gh.GITHUB_REPOSITORY, ghHead)
                ELSE Absent]

\* ------------------------------------------------------ the GitLab host

\* os.getenv(name, default) and "a or b", for strings kept as sequences.
Getenv(v, default) == IF v = NoneSeq THEN default ELSE v
OrSeq(a, b) == IF TruthySeq(a) THEN a ELSE b

DefaultGitLabHost == <<"gitlab", ".", "com">>

\* Mutant: the environment's GITLAB_HOST wins over the host argument.
resolve_gitlab_host_env_first(h, envh) ==
    IF envh # NoneSeq THEN envh ELSE OrSeq(h, DefaultGitLabHost)

\* workspace.py:320: host or os.getenv("GITLAB_HOST", "gitlab.com")
resolve_gitlab_host(h, envh) == OrSeq(h, Getenv(envh, DefaultGitLabHost))

\* gitlab.py:65-69: the host fetch_gitlab_mr_info(..., host) queries; it is
\* handed to glab as GITLAB_HOST.
fetch_gitlab_mr_info_host(h, envh) == OrSeq(h, Getenv(envh, DefaultGitLabHost))

\* No clone and no metadata query so far.
NoHostUsed == [clone |-> NoneSeq, query |-> NoneSeq]

\* setup_workspace called on its own: there is no review_pr around it.
NoReview ==
    /\ pr_url = NoUrl
    /\ cleanup = FALSE
    /\ workspace_dir = None
    /\ rpc = "none"
    /\ parsed = NotParsed
    /\ rv_platform = None
    /\ rv_workspace = None
    /\ rv_error = None
    /\ cleanup_log = <<>>
    /\ NoOutput

Init ==
    /\ platform \in Platforms
    /\ pr_number \in PrNumbers
    /\ base_branch \in BaseBranches
    /\ working_dir \in {None, WorkingDir}
    /\ reuse \in BOOLEAN
    /\ env \in Envs
    /\ \E wd \in WorkingDirStates, ghHead \in 0..MaxPr :
          /\ working_dir = None => wd = Absent
          /\ env.gh.GITHUB_WORKSPACE # GitHubWsDir => ghHead = 0
          /\ fs = InitFs(env, wd, ghHead)
    /\ cwd = "orig"
    /\ pc = "start"
    /\ workspace = None
    /\ ci_workspace = None
    /\ detected_target_branch = None
    /\ detected_diff_base_sha = None
    /\ source_branch = None
    /\ target_branch = None
    /\ pr_view = "none"
    /\ origin = "undecided"
    /\ cmds = <<>>
    /\ result = NoResult
    /\ host = NoneSeq
    /\ env_gitlab_host = NoneSeq
    /\ used_host = NoHostUsed
    /\ NoReview

\* An exception leaves setup_workspace as WorkspaceError (workspace.py:187-197).
Raise(e) ==
    /\ pc' = "raised"
    /\ result' = Raised(e)

\* --------------------------------------------------------- setup_workspace

\* workspace.py:138-140
DetectCi ==
    /\ pc = "start"
    /\ LET ci == detect_ci_workspace(env, Owner, Repo) IN
          /\ ci_workspace' = ci[1]
          /\ detected_target_branch' = ci[2]
          /\ detected_diff_base_sha' = ci[3]
    /\ pc' = "choose"
    /\ UNCHANGED <<review, inputs, used_host, fs, cwd, workspace, source_branch, target_branch,
                   pr_view, origin, cmds, result>>

\* workspace.py:142-143
UseCiWorkspace ==
    /\ pc = "choose"
    /\ ci_workspace # None
    /\ workspace' = ci_workspace
    /\ origin' = "CI_PROVIDED"
    /\ pc' = "dispatch"
    /\ UNCHANGED <<review, inputs, used_host, fs, cwd, ci_workspace, detected_target_branch,
                   detected_diff_base_sha, source_branch, target_branch, pr_view,
                   cmds, result>>

\* workspace.py:145-147
MakeTempDir ==
    /\ pc = "choose"
    /\ ci_workspace = None
    /\ working_dir = None
    /\ fs' = [fs EXCEPT ![TempDir] = Empty]
    /\ workspace' = TempDir
    /\ cmds' = Ran("mkdtemp", TRUE)
    /\ origin' = "FRESH_CLONE"
    /\ pc' = "dispatch"
    /\ UNCHANGED <<review, inputs, used_host, cwd, ci_workspace, detected_target_branch,
                   detected_diff_base_sha, source_branch, target_branch, pr_view,
                   result>>

\* Mutant: a working_dir that cannot be reused and is not empty is refused.
UseWorkingDirRefusesConflict ==
    /\ pc = "choose"
    /\ ci_workspace = None
    /\ working_dir # None
    /\ workspace' = working_dir
    /\ LET made == IF fs[working_dir].kind = "absent" THEN Empty
                   ELSE fs[working_dir]
           log1 == Ran("mkdir", TRUE)
           log2 == IF reuse /\ made.kind = "repo"
                   THEN Append(log1, [cmd |-> "git remote get-url origin",
                                      ok |-> made.url # NoneSeq])
                   ELSE log1
       IN /\ fs' = [fs EXCEPT ![working_dir] = made]
          /\ cmds' = log2
          /\ IF reuse /\ is_same_repo(made, Owner, Repo)
             THEN origin' = "REUSED" /\ pc' = "fetch_origin"
                  /\ UNCHANGED result
             ELSE /\ origin' = "FRESH_CLONE"
                  /\ IF made.kind = "empty"
                     THEN pc' = "dispatch" /\ UNCHANGED result
                     ELSE Raise("Workspace conflict")
    /\ UNCHANGED <<review, inputs, used_host, cwd, ci_workspace,
                   detected_target_branch, detected_diff_base_sha,
                   source_branch, target_branch, pr_view>>

\* workspace.py:148-164, up to the fetch: mkdir(parents, exist_ok), then
\* reuse and _is_same_repo(...), which runs git remote get-url origin when
\* the directory has a .git entry.
UseWorkingDir ==
    /\ pc = "choose"
    /\ ci_workspace = None
    /\ working_dir # None
    /\ workspace' = working_dir
    /\ LET made == IF fs[working_dir].kind = "absent" THEN Empty
                   ELSE fs[working_dir]
           log1 == Ran("mkdir", TRUE)
           log2 == IF reuse /\ made.kind = "repo"
                   THEN Append(log1, [cmd |-> "git remote get-url origin",
                                      ok |-> made.url # NoneSeq])
                   ELSE log1
       IN /\ fs' = [fs EXCEPT ![working_dir] = made]
          /\ cmds' = log2
          /\ IF reuse /\ is_same_repo(made, Owner, Repo)
             THEN origin' = "REUSED" /\ pc' = "fetch_origin"
             ELSE origin' = "FRESH_CLONE" /\ pc' = "dispatch"
    /\ UNCHANGED <<review, inputs, used_host, cwd, ci_workspace, detected_target_branch,
                   detected_diff_base_sha, source_branch, target_branch, pr_view,
                   result>>

\* workspace.py:156-162: git fetch origin, check=True.
FetchOrigin ==
    /\ pc = "fetch_origin"
    /\ \E ok \in BOOLEAN :
          /\ cmds' = Ran("git fetch origin", ok)
          /\ IF ok
             THEN pc' = "dispatch" /\ UNCHANGED result
             ELSE Raise("CalledProcessError")
    /\ UNCHANGED <<review, inputs, used_host, fs, cwd, workspace, ci_workspace,
                   detected_target_branch, detected_diff_base_sha,
                   source_branch, target_branch, pr_view, origin>>

\* workspace.py:167-177
Dispatch ==
    /\ pc = "dispatch"
    /\ IF ci_workspace # None THEN pc' = "finish" /\ UNCHANGED result
       ELSE IF platform = "github" THEN pc' = "gh_version" /\ UNCHANGED result
       ELSE IF platform = "gitlab" THEN pc' = "glab_version" /\ UNCHANGED result
       ELSE Raise("Unsupported platform")
    /\ UNCHANGED <<review, inputs, used_host, fs, cwd, workspace, ci_workspace,
                   detected_target_branch, detected_diff_base_sha,
                   source_branch, target_branch, pr_view, origin, cmds>>

\* Mutant: the fallbacks are taken on None only, not on the empty string.
FinalTargetBranchIsNone(detected, base) ==
    IF detected # None THEN detected
    ELSE IF base # None THEN base ELSE "main"

\* workspace.py:179-185
FinalTargetBranch(detected, base) == Or(detected, Or(base, "main"))

Finish ==
    /\ pc = "finish"
    /\ result' = Returned(workspace,
                          FinalTargetBranch(detected_target_branch, base_branch),
                          detected_diff_base_sha)
    /\ pc' = "returned"
    /\ UNCHANGED <<review, inputs, used_host, fs, cwd, workspace, ci_workspace,
                   detected_target_branch, detected_diff_base_sha,
                   source_branch, target_branch, pr_view, origin, cmds>>

\* workspace.py:169-175: the helper returned rv.
HelperReturns(rv) ==
    /\ target_branch' = rv
    /\ detected_target_branch' =
          IF detected_target_branch = None THEN rv ELSE detected_target_branch
    /\ pc' = "finish"
    /\ UNCHANGED result

\* git clone / gh repo clone refuse a destination that exists and is not an
\* empty directory.
CanClone(dir) == dir.kind \in {"absent", "empty"}

\* -------------------------------------------------- _setup_github_workspace

\* Mutant: a failed availability check is ignored and the clone goes ahead.
GhVersionUnchecked ==
    /\ pc = "gh_version"
    /\ \E ok \in BOOLEAN : cmds' = Ran("gh version", ok)
    /\ pc' = "gh_clone"
    /\ UNCHANGED <<review, inputs, used_host, fs, cwd, workspace, ci_workspace,
                   detected_target_branch, detected_diff_base_sha,
                   source_branch, target_branch, pr_view, origin, result>>

\* workspace.py:215-225: gh version
GhVersion ==
    /\ pc = "gh_version"
    /\ \E ok \in BOOLEAN :
          /\ cmds' = Ran("gh version", ok)
          /\ IF ok
             THEN pc' = "gh_clone" /\ UNCHANGED result
             ELSE Raise("GitHub CLI (gh) is not available")
    /\ UNCHANGED <<review, inputs, used_host, fs, cwd, workspace, ci_workspace,
                   detected_target_branch, detected_diff_base_sha,
                   source_branch, target_branch, pr_view, origin>>

\* workspace.py:232-256: gh repo clone owner/repo workspace, then chdir.
GhRepoClone ==
    /\ pc = "gh_clone"
    /\ \E ok \in BOOLEAN :
          /\ ok => CanClone(fs[workspace])
          /\ cmds' = Ran("gh repo clone", ok)
          /\ IF ok
             THEN /\ fs' = [fs EXCEPT ![workspace] = RepoDir(SameUrl, 0)]
                  /\ cwd' = workspace
                  /\ pc' = "gh_pr_checkout"
                  /\ UNCHANGED result
             ELSE /\ Raise("Failed to clone repository")
                  /\ UNCHANGED <<fs, cwd>>
    /\ UNCHANGED <<review, inputs, used_host, workspace, ci_workspace, detected_target_branch,
                   detected_diff_base_sha, source_branch, target_branch, pr_view,
                   origin>>

\* Mutant: a failing gh pr checkout leaves the process in the workspace.
GhPrCheckoutStaysInWorkspace ==
    /\ pc = "gh_pr_checkout"
    /\ \E ok \in BOOLEAN :
          /\ cmds' = Ran("gh pr checkout", ok)
          /\ IF ok
             THEN /\ fs' = [fs EXCEPT ![workspace].head = pr_number]
                  /\ pc' = "gh_pr_view"
                  /\ UNCHANGED <<cwd, result>>
             ELSE /\ Raise("Failed to checkout PR")
                  /\ UNCHANGED <<fs, cwd>>
    /\ UNCHANGED <<review, inputs, used_host, workspace, ci_workspace,
                   detected_target_branch, detected_diff_base_sha,
                   source_branch, target_branch, pr_view, origin>>

\* workspace.py:258-276, 297-299: gh pr checkout pr_number
GhPrCheckout ==
    /\ pc = "gh_pr_checkout"
    /\ \E ok \in BOOLEAN :
          /\ cmds' = Ran("gh pr checkout", ok)
          /\ IF ok
             THEN /\ fs' = [fs EXCEPT ![workspace].head = pr_number]
                  /\ pc' = "gh_pr_view"
                  /\ UNCHANGED <<cwd, result>>
             ELSE /\ cwd' = "orig"
                  /\ Raise("Failed to checkout PR")
                  /\ UNCHANGED fs
    /\ UNCHANGED <<review, inputs, used_host, workspace, ci_workspace, detected_target_branch,
                   detected_diff_base_sha, source_branch, target_branch, pr_view,
                   origin>>

\* What gh pr view --json headRefName,baseRefName can give: a non-zero exit,
\* output that is not JSON, or a JSON object whose baseRefName is missing,
\* null, empty or a branch name.
GhViewOutcomes == {"exit_nonzero", "not_json", "no_key", "null", "empty", "branch"}

\* workspace.py:280-295: whether an exception leaves the try statement.  On a
\* non-zero exit the except clause evaluates json.JSONDecodeError while the
\* function-local name json (bound by the import on line 287) is still
\* unbound, which raises UnboundLocalError.
GhViewRaises(o) == o = "exit_nonzero"

\* workspace.py:279-301: the base branch returned otherwise.
GhBaseBranch(o) ==
    CASE o = "not_json" -> "main"
      [] o = "no_key" -> "main"
      [] o = "null" -> None
      [] o = "empty" -> ""
      [] o = "branch" -> "meta_base"

\* workspace.py:278-301: gh pr view, chdir back, return base_branch.
GhPrView ==
    /\ pc = "gh_pr_view"
    /\ \E o \in GhViewOutcomes :
          /\ cmds' = Ran("gh pr view", o # "exit_nonzero")
          /\ pr_view' = o
          /\ IF GhViewRaises(o)
             THEN /\ Raise("UnboundLocalError")
                  /\ UNCHANGED <<target_branch, detected_target_branch>>
             ELSE HelperReturns(GhBaseBranch(o))
    /\ cwd' = "orig"
    /\ UNCHANGED <<review, inputs, used_host, fs, workspace, ci_workspace, detected_diff_base_sha,
                   source_branch, origin>>

\* -------------------------------------------------- _setup_gitlab_workspace

\* workspace.py:328-338: glab version
GlabVersion ==
    /\ pc = "glab_version"
    /\ \E ok \in BOOLEAN :
          /\ cmds' = Ran("glab version", ok)
          /\ IF ok
             THEN pc' = "git_clone" /\ UNCHANGED result
             ELSE Raise("GitLab CLI (glab) is not available")
    /\ UNCHANGED <<review, inputs, used_host, fs, cwd, workspace, ci_workspace,
                   detected_target_branch, detected_diff_base_sha,
                   source_branch, target_branch, pr_view, origin>>

\* workspace.py:347-364: git clone clone_url workspace (check=True), chdir.
GitClone ==
    /\ pc = "git_clone"
    /\ \E ok \in BOOLEAN :
          /\ ok => CanClone(fs[workspace])
          /\ cmds' = Ran("git clone", ok)
          /\ used_host' = [used_host EXCEPT !.clone =
                              resolve_gitlab_host(host, env_gitlab_host)]
          /\ IF ok
             THEN /\ fs' = [fs EXCEPT ![workspace] = RepoDir(SameUrl, 0)]
                  /\ cwd' = workspace
                  /\ pc' = "glab_mr_view"
                  /\ UNCHANGED result
             ELSE /\ Raise("CalledProcessError")
                  /\ UNCHANGED <<fs, cwd>>
    /\ UNCHANGED <<review, inputs, workspace, ci_workspace,
                   detected_target_branch, detected_diff_base_sha,
                   source_branch, target_branch, pr_view, origin>>

\* What fetch_gitlab_mr_info (gitlab.py:25-86) can give: GitLabAPIError, or
\* the merge request's JSON object.
MrSourceBranches == {None, "", "src"}
MrTargetBranches == {None, "", "meta_target"}
MrInfos == [source_branch : MrSourceBranches, target_branch : MrTargetBranches]

\* Mutant: only a missing key counts, an empty source branch passes.
SourceBranchIsNone(mr) == mr.source_branch = None

\* workspace.py:389: if not source_branch: raise
SourceBranchMissing(mr) == ~Truthy(mr.source_branch)

\* workspace.py:366-395, 445-447: glab mr view
GlabMrView ==
    /\ pc = "glab_mr_view"
    /\ used_host' = [used_host EXCEPT !.query =
                        fetch_gitlab_mr_info_host(
                            resolve_gitlab_host(host, env_gitlab_host),
                            env_gitlab_host)]
    /\ \/ /\ cmds' = Ran("glab mr view", FALSE)
          /\ cwd' = "orig"
          /\ Raise("Failed to fetch MR info")
          /\ UNCHANGED <<source_branch, target_branch>>
       \/ \E mr \in MrInfos :
             /\ cmds' = Ran("glab mr view", TRUE)
             /\ source_branch' = mr.source_branch
             /\ target_branch' = mr.target_branch
             /\ IF SourceBranchMissing(mr)
                THEN /\ cwd' = "orig"
                     /\ Raise("Could not determine source branch")
                ELSE /\ pc' = "git_fetch_all"
                     /\ UNCHANGED <<cwd, result>>
    /\ UNCHANGED <<review, inputs, fs, workspace, ci_workspace,
                   detected_target_branch, detected_diff_base_sha, pr_view,
                   origin>>

\* Mutant: a failed git fetch --all ends the setup.
AfterFetchAllAborts(ok) == IF ok THEN "git_checkout_b" ELSE "raised"

\* workspace.py:397-408: where a failed git fetch --all leads.
AfterFetchAll(ok) == "git_checkout_b"

\* workspace.py:397-408: git fetch --all; a failure is logged only.
GitFetchAll ==
    /\ pc = "git_fetch_all"
    /\ \E ok \in BOOLEAN :
          /\ cmds' = Ran("git fetch --all", ok)
          /\ pc' = AfterFetchAll(ok)
    /\ UNCHANGED <<review, inputs, used_host, fs, cwd, workspace, ci_workspace,
                   detected_target_branch, detected_diff_base_sha,
                   source_branch, target_branch, pr_view, origin, result>>

\* workspace.py:449-450
GlTargetBranch(t) == Or(t, "main")

\* workspace.py:411-419, 445-450: the branch is checked out; chdir back and
\* return the target branch.
CheckedOut ==
    /\ fs' = [fs EXCEPT ![workspace].head = pr_number]
    /\ cwd' = "orig"
    /\ detected_target_branch' =
          IF detected_target_branch = None
          THEN GlTargetBranch(target_branch) ELSE detected_target_branch
    /\ pc' = "finish"
    /\ UNCHANGED result

\* Mutant: a failed first checkout ends the attempts.
AfterFirstCheckoutGivesUp == "raised"

\* workspace.py:420-425: where a failed first checkout leads.
AfterFirstCheckoutFails == "git_checkout"

\* workspace.py:411-424: git checkout -b source origin/source
GitCheckoutB ==
    /\ pc = "git_checkout_b"
    /\ \E ok \in BOOLEAN :
          /\ cmds' = Ran("git checkout -b", ok)
          /\ IF ok
             THEN CheckedOut
             ELSE /\ pc' = AfterFirstCheckoutFails
                  /\ UNCHANGED <<fs, cwd, detected_target_branch, result>>
    /\ UNCHANGED <<review, inputs, used_host, workspace, ci_workspace, detected_diff_base_sha,
                   source_branch, target_branch, pr_view, origin>>

\* workspace.py:425-447: git checkout source
GitCheckout ==
    /\ pc = "git_checkout"
    /\ \E ok \in BOOLEAN :
          /\ cmds' = Ran("git checkout", ok)
          /\ IF ok
             THEN CheckedOut
             ELSE /\ cwd' = "orig"
                  /\ Raise("Failed to checkout MR branch")
                  /\ UNCHANGED <<fs, detected_target_branch>>
    /\ UNCHANGED <<review, inputs, used_host, workspace, ci_workspace, detected_diff_base_sha,
                   source_branch, target_branch, pr_view, origin>>

\* ------------------------------------------------------- the specification

Next ==
    \/ DetectCi
    \/ UseCiWorkspace
    \/ MakeTempDir
    \/ UseWorkingDir
    \/ FetchOrigin
    \/ Dispatch
    \/ GhVersion
    \/ GhRepoClone
    \/ GhPrCheckout
    \/ GhPrView
    \/ GlabVersion
    \/ GitClone
    \/ GlabMrView
    \/ GitFetchAll
    \/ GitCheckoutB
    \/ GitCheckout
    \/ Finish

Spec == Init /\ [][Next]_vars

\* ------------------------------------------------------ resolving a URL

\* setup_workspace has not been called: its arguments and locals hold
\* nothing, and nothing has been run.
SetupNotCalled ==
    /\ platform = None
    /\ host = NoneSeq
    /\ env_gitlab_host = NoneSeq
    /\ used_host = NoHostUsed
    /\ pr_number = 0
    /\ base_branch = None
    /\ working_dir = None
    /\ reuse = FALSE
    /\ cwd = "orig"
    /\ pc = "idle"
    /\ workspace = None
    /\ ci_workspace = None
    /\ detected_target_branch = None
    /\ detected_diff_base_sha = None
    /\ source_branch = None
    /\ target_branch = None
    /\ pr_view = "none"
    /\ origin = "undecided"
    /\ cmds = <<>>
    /\ result = NoResult

\* pr_url is any URL whose path has at most MaxPath segments, or MaxPath
\* segments behind 1..MaxGroups leading group segments.
InitParse ==
    /\ \/ \E h \in Hosts, n \in 0..MaxPath :
             \E t \in [1..n -> Segments] : pr_url = Url(h, t)
       \/ \E h \in Hosts, k \in 1..MaxGroups :
             \E g \in [1..k -> GroupSegments], t \in [1..MaxPath -> Segments] :
                pr_url = Url(h, g \o t)
    /\ rpc = "resolve"
    /\ parsed = NotParsed
    /\ rv_platform = None
    /\ cleanup = FALSE
    /\ workspace_dir = None
    /\ rv_workspace = None
    /\ rv_error = None
    /\ cleanup_log = <<>>
    /\ env = [gl |-> NoGitLabEnv, gh |-> NoGitHubEnv]
    /\ fs = InitFs(env, Absent, 0)
    /\ SetupNotCalled
    /\ NoOutput

\* agent.py:286-287: the two functions applied to pr_url.
Resolve ==
    /\ rpc = "resolve"
    /\ parsed' = parse_pr_url(pr_url)
    /\ rv_platform' = detect_platform(pr_url)
    /\ rpc' = "resolved"
    /\ UNCHANGED <<review_text, review_event, pr_url, cleanup, workspace_dir, rv_workspace, rv_error,
                   cleanup_log, inputs, fs, cwd, pc, workspace, ci_workspace,
                   detected_target_branch, detected_diff_base_sha,
                   source_branch, target_branch, pr_view, origin, cmds,
                   result, used_host>>

NextParse == Resolve

SpecParse == InitParse /\ [][NextParse]_vars

\* ---------------------------------------------------------------- review_pr

\* The URLs a review is asked for: requests 1 and 2 of repository a/b on
\* either platform, and URLs that parse_pr_url rejects.
ReviewUrls ==
    {Url(<<"github", ".", "com">>, <<"a", "b", "pull", n>>) : n \in {"1", "2"}}
        \cup {Url(<<"gitlab", ".", "example", ".", "com">>,
                  <<"a", "b", "-", "merge_requests", n>>) : n \in {"1", "2"}}
        \cup {Url(<<"github", ".", "com">>, <<"a", "b", "pull", "a">>),
              Url(<<"example", ".", "com">>, <<"a", "b", "merge_requests", "1">>),
              Url(<<"github", ".", "com">>, <<"a", "b">>)}

\* A path that is a regular file.
RegularFile == [kind |-> "file", url |-> NoneSeq, head |-> 0]

\* What shutil.rmtree may raise (None: it removed the tree).
RmtreeErrors == {None, "PermissionError", "OSError"}

\* Mutant: only a vanished path is tolerated.
ExceptOnlyFileNotFound(exc) == exc = "FileNotFoundError"

\* workspace.py:465: "except Exception" catches every error of the body.
ExceptException(exc) ==
    exc \in {"PermissionError", "OSError", "FileNotFoundError"}

\* workspace.py:453-466: cleanup_workspace(path) on file system f, rmtree
\* raising exc if it is called.  Gives the file system left, the record of
\* the call, and the exception that leaves the function (None: none).
cleanup_workspace(f, path, exc) ==
    LET is_dir == f[path].kind \notin {"absent", "file"}
        error == IF is_dir THEN exc ELSE None
        removed == is_dir /\ exc = None
        raised == IF error # None /\ ~ExceptException(error) THEN error ELSE None
    IN  [fs |-> IF removed THEN [f EXCEPT ![path] = Absent] ELSE f,
         call |-> [path |-> path, kind |-> f[path].kind, removed |-> removed,
                   raised |-> raised],
         raised |-> raised]

InitReview ==
    /\ pr_url \in ReviewUrls
    /\ cleanup \in BOOLEAN
    /\ workspace_dir \in {None, WorkingDir}
    /\ rpc = "parse"
    /\ parsed = NotParsed
    /\ rv_platform = None
    /\ rv_workspace = None
    /\ rv_error = None
    /\ cleanup_log = <<>>
    /\ env \in Envs
    /\ \E wd \in WorkingDirStates, ghHead \in 0..MaxPr :
          /\ workspace_dir = None => wd = Absent
          /\ env.gh.GITHUB_WORKSPACE # GitHubWsDir => ghHead = 0
          /\ fs = InitFs(env, wd, ghHead)
    /\ SetupNotCalled
    /\ NoOutput

\* Mutant: a URL that does not parse is reviewed as request 1 on GitHub.
RvParseLenient ==
    /\ rpc = "parse"
    /\ parsed' = parse_pr_url(pr_url)
    /\ rv_platform' = "github"
    /\ rpc' = "setup"
    /\ platform' = "github"
    /\ pr_number' = 1
    /\ working_dir' = workspace_dir
    /\ reuse' = (workspace_dir # None)
    /\ pc' = "start"
    /\ UNCHANGED <<review_text, review_event, pr_url, cleanup, workspace_dir, rv_workspace, rv_error,
                   cleanup_log, host, env_gitlab_host, used_host,
                   base_branch, env, fs, cwd, workspace,
                   ci_workspace, detected_target_branch,
                   detected_diff_base_sha, source_branch, target_branch,
                   pr_view, origin, cmds, result>>

\* agent.py:284-307: parse the URL; a ValueError is re-raised, otherwise
\* setup_workspace is called with the parsed reference.
RvParse ==
    /\ rpc = "parse"
    /\ LET p == parse_pr_url(pr_url) IN
          IF p.ok
          THEN /\ p.owner = Owner /\ p.repo = Repo   \* the repository modelled
               /\ parsed' = p
               /\ rv_platform' = detect_platform(pr_url)
               /\ rpc' = "setup"
               /\ platform' = detect_platform(pr_url)
               /\ pr_number' = p.pr_number
               /\ host' = p.host
               /\ working_dir' = workspace_dir
               /\ reuse' = (workspace_dir # None)
               /\ pc' = "start"
               /\ UNCHANGED rv_error
          ELSE /\ rpc' = "raised"
               /\ rv_error' = "ValueError"
               /\ UNCHANGED <<parsed, rv_platform, platform, pr_number,
                              host, working_dir, reuse, pc>>
    /\ UNCHANGED <<review_text, review_event, pr_url, cleanup, workspace_dir, rv_workspace, cleanup_log,
                   env_gitlab_host, used_host,
                   base_branch, env, fs, cwd, workspace, ci_workspace,
                   detected_target_branch, detected_diff_base_sha,
                   source_branch, target_branch, pr_view, origin, cmds,
                   result>>

setup == <<inputs, cwd, pc, workspace, ci_workspace, detected_target_branch,
           detected_diff_base_sha, source_branch, target_branch, pr_view,
           origin, result, used_host>>

\* agent.py:299-311: setup_workspace returned.
RvSetupReturns ==
    /\ rpc = "setup"
    /\ pc = "returned"
    /\ rv_workspace' = result.path
    /\ rpc' = "create_agent"
    /\ UNCHANGED <<review_text, review_event, pr_url, cleanup, workspace_dir, parsed, rv_platform,
                   rv_error, cleanup_log, setup, fs, cmds>>

\* agent.py:312-314: setup_workspace raised; workspace is still None.
RvSetupRaises ==
    /\ rpc = "setup"
    /\ pc = "raised"
    /\ rpc' = "raised"
    /\ rv_error' = "RuntimeError"
    /\ UNCHANGED <<review_text, review_event, pr_url, cleanup, workspace_dir, parsed, rv_platform,
                   rv_workspace, cleanup_log, setup, fs, cmds>>

\* Mutant: the workspace is released whether or not cleanup was asked for.
ReleaseWhateverAsked(f, exc, next, err) ==
    IF rv_workspace # None
    THEN LET c == cleanup_workspace(f, rv_workspace, exc) IN
            /\ fs' = c.fs
            /\ cleanup_log' = Append(cleanup_log, c.call)
            /\ IF c.raised # None
               THEN rpc' = "raised" /\ rv_error' = c.raised
               ELSE rpc' = next /\ rv_error' = err
    ELSE /\ fs' = f
         /\ UNCHANGED cleanup_log
         /\ rpc' = next
         /\ rv_error' = err

\* "if workspace and cleanup: cleanup_workspace(workspace)" on file system
\* f, then review_pr goes on to next with exception err (agent.py:341-343,
\* 376-378, 486-493).
Release(f, exc, next, err) ==
    IF rv_workspace # None /\ cleanup
    THEN LET c == cleanup_workspace(f, rv_workspace, exc) IN
            /\ fs' = c.fs
            /\ cleanup_log' = Append(cleanup_log, c.call)
            /\ IF c.raised # None
               THEN rpc' = "raised" /\ rv_error' = c.raised
               ELSE rpc' = next /\ rv_error' = err
    ELSE /\ fs' = f
         /\ UNCHANGED cleanup_log
         /\ rpc' = next
         /\ rv_error' = err

\* agent.py:327-343: create_hodor_agent.
RvCreateAgent ==
    /\ rpc = "create_agent"
    /\ \E ok \in BOOLEAN, exc \in RmtreeErrors :
          IF ok
          THEN /\ rpc' = "metadata"
               /\ UNCHANGED <<fs, cleanup_log, rv_error>>
          ELSE Release(fs, exc, "raised", "RuntimeError")
    /\ UNCHANGED <<review_text, review_event, pr_url, cleanup, workspace_dir, parsed, rv_platform,
                   rv_workspace, setup, cmds>>

\* The tool was checked by setup_workspace in this invocation.
ToolChecked ==
    \E i \in DOMAIN cmds :
        cmds[i].cmd \in {"gh version", "glab version"} /\ cmds[i].ok

\* agent.py:345-356: fetch_gitlab_mr_info / fetch_github_pr_info.  A failing
\* command or unusable output is the platform's APIError, which is logged;
\* a missing binary (possible when no availability check ran) is a
\* FileNotFoundError, which no clause catches.
MetadataOutcomes == {"ok", "api_error", "not_found"}

RvFetchMetadata ==
    /\ rpc = "metadata"
    /\ \E o \in MetadataOutcomes :
          /\ o = "not_found" => ~ToolChecked
          /\ cmds' = Ran(IF rv_platform = "gitlab" THEN "fetch_gitlab_mr_info"
                         ELSE "fetch_github_pr_info", o = "ok")
          /\ IF o = "not_found"
             THEN rpc' = "raised" /\ rv_error' = "FileNotFoundError"
             ELSE rpc' = "build_prompt" /\ UNCHANGED rv_error
    /\ UNCHANGED <<review_text, review_event, pr_url, cleanup, workspace_dir, parsed, rv_platform,
                   rv_workspace, cleanup_log, setup, fs>>

\* agent.py:358-378: build_pr_review_prompt.
RvBuildPrompt ==
    /\ rpc = "build_prompt"
    /\ \E ok \in BOOLEAN, exc \in RmtreeErrors :
          IF ok
          THEN /\ rpc' = "run"
               /\ UNCHANGED <<fs, cleanup_log, rv_error>>
          ELSE Release(fs, exc, "raised", "RuntimeError")
    /\ UNCHANGED <<review_text, review_event, pr_url, cleanup, workspace_dir, parsed, rv_platform,
                   rv_workspace, setup, cmds>>

\* What the agent, which runs shell commands in the workspace, leaves of
\* the workspace directory.
AgentLeaves(dir) == {dir, Absent, RegularFile}

\* agent.py:420-493: the conversation runs; the review text is returned, or
\* an empty answer or any exception becomes RuntimeError; the finally
\* clause releases the workspace on either way out.
RunOutcomes == {"review", "empty", "exception"}

RvRun ==
    /\ rpc = "run"
    /\ \E o \in RunOutcomes, left \in AgentLeaves(fs[rv_workspace]),
          exc \in RmtreeErrors :
          Release([fs EXCEPT ![rv_workspace] = left], exc,
                  IF o = "review" THEN "returned" ELSE "raised",
                  IF o = "review" THEN None ELSE "RuntimeError")
    /\ UNCHANGED <<review_text, review_event, pr_url, cleanup, workspace_dir, parsed, rv_platform,
                   rv_workspace, setup, cmds>>

NextReview ==
    \/ RvParse
    \/ DetectCi
    \/ UseCiWorkspace
    \/ MakeTempDir
    \/ UseWorkingDir
    \/ FetchOrigin
    \/ Dispatch
    \/ GhVersion
    \/ GhRepoClone
    \/ GhPrCheckout
    \/ GhPrView
    \/ GlabVersion
    \/ GitClone
    \/ GlabMrView
    \/ GitFetchAll
    \/ GitCheckoutB
    \/ GitCheckout
    \/ Finish
    \/ RvSetupReturns
    \/ RvSetupRaises
    \/ RvCreateAgent
    \/ RvFetchMetadata
    \/ RvBuildPrompt
    \/ RvRun

SpecReview == InitReview /\ [][NextReview]_vars

\* review_pr has returned or raised.
ReviewOver == rpc \in {"returned", "raised"}

\* ------------------------------------------- _detect_ci_workspace alone

\* Every combination of the variables _detect_ci_workspace reads: unset
\* (None), empty, the value it looks for, and other values.
DetectEnvs ==
    [gl : [GITLAB_CI : {None, "true", "1"},
           CI_PROJECT_DIR : {None, "", GitLabCiDir},
           CI_PROJECT_PATH : {NoneSeq, <<>>, ExpectedPath, NestedPath}
                                \cup OtherPaths,
           CI_MERGE_REQUEST_IID : {1},
           CI_MERGE_REQUEST_TARGET_BRANCH_NAME : {None, "", "ci_target"},
           CI_MERGE_REQUEST_DIFF_BASE_SHA : {None, "sha"}],
     gh : [GITHUB_ACTIONS : {None, "true", "1"},
           GITHUB_WORKSPACE : {None, "", GitHubWsDir},
           GITHUB_REPOSITORY : {NoneSeq, <<>>, ExpectedPath, NestedPath}
                                  \cup OtherPaths,
           GITHUB_BASE_REF : {None, "", "gh_base"}]]

\* _detect_ci_workspace(owner, repo, pr_number) is entered (workspace.py:26).
InitDetect ==
    /\ env \in DetectEnvs
    /\ fs = [d \in Dirs |-> Absent]
    /\ platform = None
    /\ pr_number = 1
    /\ base_branch = None
    /\ working_dir = None
    /\ reuse = FALSE
    /\ cwd = "orig"
    /\ pc = "start"
    /\ workspace = None
    /\ ci_workspace = None
    /\ detected_target_branch = None
    /\ detected_diff_base_sha = None
    /\ source_branch = None
    /\ target_branch = None
    /\ pr_view = "none"
    /\ origin = "undecided"
    /\ cmds = <<>>
    /\ result = NoResult
    /\ host = NoneSeq
    /\ env_gitlab_host = NoneSeq
    /\ used_host = NoHostUsed
    /\ NoReview

NextDetect == DetectCi

SpecDetect == InitDetect /\ [][NextDetect]_vars

\* --------------------------------------- setup_workspace for a GitLab host

\* The host argument: not given, empty, or a self-hosted instance; and the
\* environment's GITLAB_HOST: unset, empty, or another instance.
HostArgs == {NoneSeq, <<>>, <<"gitlab", ".", "example", ".", "com">>}
EnvGitLabHosts == {NoneSeq, <<>>, <<"env", ".", "host">>}

\* setup_workspace("gitlab", owner, repo, pr_number, host) outside CI, with
\* no working_dir, or with working_dir in any state.
InitGitLab ==
    /\ platform = "gitlab"
    /\ pr_number \in PrNumbers
    /\ base_branch \in BaseBranches
    /\ working_dir \in {None, WorkingDir}
    /\ reuse = FALSE
    /\ env = [gl |-> NoGitLabEnv, gh |-> NoGitHubEnv]
    /\ \E wd \in WorkingDirStates :
          /\ working_dir = None => wd = Absent
          /\ fs = InitFs(env, wd, 0)
    /\ host \in HostArgs
    /\ env_gitlab_host \in EnvGitLabHosts
    /\ used_host = NoHostUsed
    /\ cwd = "orig"
    /\ pc = "start"
    /\ workspace = None
    /\ ci_workspace = None
    /\ detected_target_branch = None
    /\ detected_diff_base_sha = None
    /\ source_branch = None
    /\ target_branch = None
    /\ pr_view = "none"
    /\ origin = "undecided"
    /\ cmds = <<>>
    /\ result = NoResult
    /\ NoReview

NextGitLab ==
    \/ DetectCi
    \/ MakeTempDir
    \/ UseWorkingDir
    \/ Dispatch
    \/ GlabVersion
    \/ GitClone
    \/ GlabMrView
    \/ GitFetchAll
    \/ GitCheckoutB
    \/ GitCheckout
    \/ Finish

SpecGitLab == InitGitLab /\ [][NextGitLab]_vars

\* ------------------------------------------------------ parse_review_output

\* The agent's final text, as whitespace-separated tokens: a word of prose, a
\* lone brace or bracket, a number, or a whole JSON object.  The objects are
\* a review with one complete finding, {} , a review whose finding has no
\* "title" ({"findings":[{"body":"x"}]}), and a review whose "findings" is
\* not a list ({"findings":5}).
JsonObjects ==
    {"REVIEW", "EMPTY_OBJECT", "FINDING_WITHOUT_TITLE", "FINDINGS_NOT_A_LIST"}
TextTokens == {"prose", "{", "}", "[", "]", "42"} \cup JsonObjects
ReviewTexts == UNION {[1..n -> TextTokens] : n \in 0..MaxText}

JSONDecodeError == [ok |-> FALSE, type |-> None, object |-> None]
JsonValue(t, o) == [ok |-> TRUE, type |-> t, object |-> o]

\* json.loads(text): the text is one JSON value, or JSONDecodeError.  An
\* array holds nothing or one value (the tokens carry no comma).
RECURSIVE json_loads(_)
json_loads(t) ==
    IF Len(t) = 1 /\ t[1] \in JsonObjects THEN JsonValue("dict", t[1])
    ELSE IF t = <<"{", "}">> THEN JsonValue("dict", "EMPTY_OBJECT")
    ELSE IF t = <<"42">> THEN JsonValue("int", None)
    ELSE IF Len(t) >= 2 /\ t[1] = "[" /\ t[Len(t)] = "]"
         THEN LET inner == SubSeq(t, 2, Len(t) - 1)
              IN  IF inner = <<>> \/ json_loads(inner).ok
                  THEN JsonValue("list", None)
                  ELSE JSONDecodeError
    ELSE JSONDecodeError

ReviewOutputEvent(tier, n, explanation) ==
    [kind |-> "event", tier |-> tier, findings |-> n,
     overall_explanation |-> explanation, error |-> None]
RaisedFrom(tier, e) ==
    [kind |-> "raised", tier |-> tier, findings |-> 0,
     overall_explanation |-> <<>>, error |-> e]

\* ReviewOutputEvent.from_dict(data): data.get on a value that is no dict is
\* an AttributeError, iterating findings that are no list a TypeError, and
\* ReviewFinding.from_dict indexes data["title"]: a KeyError.
from_dict(v, tier) ==
    IF v.type # "dict" THEN RaisedFrom(tier, "AttributeError")
    ELSE IF v.object = "FINDINGS_NOT_A_LIST" THEN RaisedFrom(tier, "TypeError")
    ELSE IF v.object = "FINDING_WITHOUT_TITLE" THEN RaisedFrom(tier, "KeyError")
    ELSE IF v.object = "REVIEW"
         THEN ReviewOutputEvent(tier, 1, <<"explanation">>)
    ELSE ReviewOutputEvent(tier, 0, <<>>)

HasOpen(tok) == tok = "{" \/ tok \in JsonObjects
HasClose(tok) == tok = "}" \/ tok \in JsonObjects
\* text.find("{") and text.rfind("}"), 0 for -1.
first_brace(t) ==
    LET S == {i \in DOMAIN t : HasOpen(t[i])}
    IN  IF S = {} THEN 0 ELSE CHOOSE i \in S : \A j \in S : i <= j
last_brace(t) ==
    LET S == {i \in DOMAIN t : HasClose(t[i])}
    IN  IF S = {} THEN 0 ELSE CHOOSE i \in S : \A j \in S : j <= i

\* parse_review_output(text): only json.JSONDecodeError is caught.  The two
\* braces are in one token only when it is an object, whose "{" is before
\* its "}".
parse_review_output(t) ==
    LET whole == json_loads(t)
        f == first_brace(t)
        l == last_brace(t)
    IN  IF whole.ok THEN from_dict(whole, 1)
        ELSE IF f # 0 /\ l # 0 /\ f <= l /\ json_loads(SubSeq(t, f, l)).ok
             THEN from_dict(json_loads(SubSeq(t, f, l)), 2)
        ELSE ReviewOutputEvent(3, 0, t)

\* cli.py:257-259: the review text goes to parse_review_output.
InitOutput ==
    /\ review_text \in ReviewTexts
    /\ review_event = NoEvent
    /\ pr_url = NoUrl
    /\ cleanup = FALSE
    /\ workspace_dir = None
    /\ rpc = "none"
    /\ parsed = NotParsed
    /\ rv_platform = None
    /\ rv_workspace = None
    /\ rv_error = None
    /\ cleanup_log = <<>>
    /\ env = [gl |-> NoGitLabEnv, gh |-> NoGitHubEnv]
    /\ fs = InitFs(env, Absent, 0)
    /\ SetupNotCalled

ParseReviewOutput ==
    /\ review_event.kind = "none"
    /\ review_event' = parse_review_output(review_text)
    /\ UNCHANGED <<review_text, pr_url, cleanup, workspace_dir, rpc, parsed,
                   rv_platform, rv_workspace, rv_error, cleanup_log, inputs,
                   fs, cwd, pc, workspace, ci_workspace,
                   detected_target_branch, detected_diff_base_sha,
                   source_branch, target_branch, pr_view, origin, cmds,
                   result, used_host>>

NextOutput == ParseReviewOutput

SpecOutput == InitOutput /\ [][NextOutput]_vars

\* ------------------------------------------------------------------ claims

CloneCmds == {"gh repo clone", "git clone"}
FetchCmds == {"git fetch origin", "git fetch --all"}
CheckoutCmds == {"gh pr checkout", "git checkout -b", "git checkout"}
RanCmds == {cmds[i].cmd : i \in DOMAIN cmds}
Finished == pc \in {"returned", "raised"}

\* The environment of a GitLab CI job of the repository under review:
\* GITLAB_CI is "true", CI_PROJECT_DIR and CI_PROJECT_PATH are set (to
\* non-empty values), and the project path is owner/repo or ends with
\* /owner/repo.
InGitLabCi ==
    /\ env.gl.GITLAB_CI = "true"
    /\ env.gl.CI_PROJECT_DIR \notin {None, ""}
    /\ env.gl.CI_PROJECT_PATH \in {ExpectedPath, NestedPath}

\* The environment of a GitHub Actions job of the repository under review.
InGitHubActions ==
    /\ env.gh.GITHUB_ACTIONS = "true"
    /\ env.gh.GITHUB_WORKSPACE \notin {None, ""}
    /\ env.gh.GITHUB_REPOSITORY = ExpectedPath

\* C1: in a matching GitLab CI run setup_workspace runs no clone, fetch or
\* checkout command and returns the directory CI_PROJECT_DIR names, whatever
\* the platform, working_dir and reuse.
C1_GitLabCiAdoptsProjectDir ==
    InGitLabCi =>
        /\ RanCmds \cap (CloneCmds \cup FetchCmds \cup CheckoutCmds) = {}
        /\ pc # "raised"
        /\ pc = "returned" => result.path = env.gl.CI_PROJECT_DIR

C1_Witness ==
    /\ InGitLabCi
    /\ env.gl.CI_PROJECT_PATH = NestedPath
    /\ platform = "github"
    /\ working_dir = WorkingDir
    /\ reuse
    /\ fs[WorkingDir].kind = "repo"
    /\ pc = "returned"
    /\ result.path = GitLabCiDir

\* C2 (as claimed): on the reuse path (no CI context, working_dir given,
\* reuse true, the directory holds a clone whose origin contains owner/repo)
\* setup_workspace fetches and never runs a clone command, and a run whose
\* commands all succeed returns a non-empty target_branch.
C2_ReuseFetchesAndNeverClones ==
    ( /\ origin = "REUSED"
      /\ platform \in {"github", "gitlab"}
      /\ ci_workspace = None
      /\ working_dir # None
      /\ reuse
      /\ fs[working_dir].kind = "repo"
      /\ fs[working_dir].url # NoneSeq
      /\ Contains(fs[working_dir].url, ExpectedPath) )
    =>
        /\ RanCmds \cap CloneCmds = {}
        /\ pc \notin {"fetch_origin"} => "git fetch origin" \in RanCmds
        /\ (Finished /\ \A i \in DOMAIN cmds : cmds[i].ok) =>
              /\ result.kind = "returned"
              /\ result.target_branch \notin {None, ""}

\* C3 (as claimed): whenever setup_workspace returns, the returned
\* directory is checked out at the source revision of request pr_number.
C3_ReturnedTreeAtSourceRevision ==
    pc = "returned" => fs[result.path].head = pr_number

\* C4: the origin is decided once, in the order CI_PROVIDED, REUSED,
\* FRESH_CLONE: a CI context wins over any working_dir, which is then not
\* created, fetched or returned; REUSED needs no CI context, a working_dir,
\* reuse and a directory recognised as the repository; otherwise FRESH_CLONE.
C4_Decision ==
    IF InGitLabCi \/ InGitHubActions THEN "CI_PROVIDED"
    ELSE IF /\ working_dir # None
            /\ reuse
            /\ fs[working_dir].kind = "repo"
            /\ fs[working_dir].url # NoneSeq
            /\ Contains(fs[working_dir].url, ExpectedPath)
         THEN "REUSED"
         ELSE "FRESH_CLONE"

C4_OriginInStrictOrder ==
    /\ [][ /\ (pc = "choose" /\ pc' # "choose") => origin' = C4_Decision
           /\ pc # "choose" => origin' = origin
           /\ (pc = "choose" /\ origin' = "CI_PROVIDED") => fs' = fs
         ]_vars
    /\ [](pc \in {"start", "choose"} <=> origin = "undecided")
    /\ [](origin = "CI_PROVIDED" =>
            /\ RanCmds = {}
            /\ pc = "returned" =>
                  /\ result.path = IF InGitLabCi THEN env.gl.CI_PROJECT_DIR
                                   ELSE env.gh.GITHUB_WORKSPACE
                  /\ result.path # working_dir)
    /\ [](origin = "REUSED" => cmds[2].cmd = "git remote get-url origin")
    /\ [](origin = "FRESH_CLONE" => "git fetch origin" \notin RanCmds)

C4_Witness ==
    /\ InGitHubActions
    /\ working_dir = WorkingDir
    /\ reuse
    /\ fs[WorkingDir] = Absent
    /\ origin = "CI_PROVIDED"
    /\ pc = "returned"

\* C5: every returned target_branch is a non-empty string.
C5_TargetBranchNeverEmpty ==
    result.kind = "returned" => result.target_branch \notin {None, ""}

C5_Witness ==
    /\ result.kind = "returned"
    /\ detected_target_branch = ""
    /\ base_branch = ""
    /\ result.target_branch = "main"

\* The target branch the CI environment supplies, when it is adopted.
C6_CiTarget ==
    IF InGitLabCi THEN env.gl.CI_MERGE_REQUEST_TARGET_BRANCH_NAME
    ELSE IF InGitHubActions THEN env.gh.GITHUB_BASE_REF
    ELSE None

\* The base/target branch the platform metadata query supplied: baseRefName
\* of gh pr view, target_branch of glab mr view; None when the query did not
\* run, failed or carried no branch.
C6_MetadataTarget ==
    IF platform = "github"
    THEN CASE pr_view = "branch" -> "meta_base"
           [] pr_view = "empty" -> ""
           [] OTHER -> None
    ELSE target_branch

\* C6 (as claimed): the returned target_branch is the first available of the
\* CI target branch, the metadata query's branch, base_branch and "main".
C6_TargetBranchFallbackChain ==
    result.kind = "returned" =>
        result.target_branch =
            Or(C6_CiTarget, Or(C6_MetadataTarget, Or(base_branch, "main")))

\* C7: the returned diff_base_sha is CI_MERGE_REQUEST_DIFF_BASE_SHA when the
\* workspace was adopted from a matching GitLab CI environment, and None on
\* every other path.
C7_DiffBaseOnlyFromGitLabCi ==
    result.kind = "returned" =>
        result.diff_base_sha =
            IF InGitLabCi THEN env.gl.CI_MERGE_REQUEST_DIFF_BASE_SHA ELSE None

C7_Witness ==
    /\ result.kind = "returned"
    /\ result.diff_base_sha = "sha"
    /\ origin = "CI_PROVIDED"

\* C8 (as claimed): once gh pr view has failed (non-zero exit, or output
\* that is not JSON), _setup_github_workspace returns "main" and
\* setup_workspace does not raise.
C8_GitHubMetadataFailureNonFatal ==
    pr_view \in {"exit_nonzero", "not_json"} =>
        /\ pc \in {"finish", "returned"}
        /\ target_branch = "main"

\* C9: when glab mr view fails, or its metadata has no source branch,
\* setup_workspace raises and runs no command afterwards; fetch and checkout
\* commands only ever run with the source branch the metadata named.
C9_GitLabMetadataFailureFatal ==
    /\ \A i \in DOMAIN cmds :
          (cmds[i].cmd = "glab mr view" /\ (~cmds[i].ok \/ source_branch \in {None, ""}))
              => /\ i = Len(cmds)
                 /\ pc = "raised"
                 /\ result.kind = "raised"
    /\ RanCmds \cap {"git fetch --all", "git checkout -b", "git checkout"} # {}
          => source_branch = "src"

C9_Witness ==
    /\ pc = "raised"
    /\ cmds # <<>>
    /\ cmds[Len(cmds)] = [cmd |-> "glab mr view", ok |-> TRUE]
    /\ source_branch = ""

\* C10: git checkout -b runs at most once and first; plain git checkout runs
\* at most once, exactly when git checkout -b failed; a successful checkout
\* ends the helper successfully; the checkout error is raised exactly when
\* both have run and failed.
C10_TwoCheckoutStrategiesInOrder ==
    LET first == {i \in DOMAIN cmds : cmds[i].cmd = "git checkout -b"}
        second == {i \in DOMAIN cmds : cmds[i].cmd = "git checkout"}
        failed == pc = "raised" /\ result.error = "Failed to checkout MR branch"
    IN  /\ Cardinality(first) <= 1
        /\ Cardinality(second) <= 1
        /\ \A j \in second : (j - 1) \in first /\ ~cmds[j - 1].ok
        /\ \A i \in first :
              ~cmds[i].ok =>
                  IF i = Len(cmds) THEN pc = "git_checkout" ELSE (i + 1) \in second
        /\ \A i \in first \cup second :
              cmds[i].ok => i = Len(cmds) /\ pc \in {"finish", "returned"}
        /\ failed <=> \E j \in second : ~cmds[j].ok

C10_Witness ==
    /\ pc = "returned"
    /\ Len(cmds) >= 2
    /\ cmds[Len(cmds)] = [cmd |-> "git checkout", ok |-> TRUE]
    /\ cmds[Len(cmds) - 1] = [cmd |-> "git checkout -b", ok |-> FALSE]

\* The commands that read request metadata from the platform.
MetadataCmds == {"gh pr view", "glab mr view"}

\* The errors of the availability checks; both messages name the tool and
\* tell where to install it from (workspace.py:223-225, 334-338).
ToolMissingErrors ==
    [gh |-> "GitHub CLI (gh) is not available",
     glab |-> "GitLab CLI (glab) is not available"]

\* C11: when the availability check of the platform's command-line tool
\* fails, setup_workspace raises the error that names the tool and its
\* installation page, and no clone, checkout or metadata command is run.
C11_MissingToolFailsFast ==
    \A i \in DOMAIN cmds :
        (cmds[i].cmd \in {"gh version", "glab version"} /\ ~cmds[i].ok) =>
            /\ i = Len(cmds)
            /\ pc = "raised"
            /\ result.kind = "raised"
            /\ result.error = IF cmds[i].cmd = "gh version"
                              THEN ToolMissingErrors.gh
                              ELSE ToolMissingErrors.glab
            /\ RanCmds \cap (CloneCmds \cup CheckoutCmds \cup MetadataCmds) = {}

C11_Witness ==
    /\ pc = "raised"
    /\ cmds = <<[cmd |-> "mkdtemp", ok |-> TRUE],
                [cmd |-> "gh version", ok |-> FALSE]>>
    /\ result.error = ToolMissingErrors.gh

\* C12 (as claimed): no call of cleanup_workspace deletes the workspace
\* when review_pr was asked to keep it (cleanup false), and none deletes a
\* workspace adopted from a CI runner, even when cleanup is true.
C12_ReleaseKeepsKeptAndCiWorkspaces ==
    /\ ~cleanup => cleanup_log = <<>>
    /\ origin = "CI_PROVIDED" =>
          \A i \in DOMAIN cleanup_log : ~cleanup_log[i].removed

\* C13: cleanup_workspace never lets an exception out, whatever the path is
\* when it is called: a directory, a missing path, a regular file, or a
\* directory whose removal fails; review_pr then ends as it would have.
C13_CleanupNeverRaises ==
    /\ \A i \in DOMAIN cleanup_log : cleanup_log[i].raised = None
    /\ rv_error \in {None, "ValueError", "RuntimeError", "FileNotFoundError"}
    /\ (rv_error = "FileNotFoundError" => cleanup_log = <<>>)

C13_Witness ==
    /\ rpc = "returned"
    /\ Len(cleanup_log) = 1
    /\ cleanup_log[1].kind = "repo"
    /\ ~cleanup_log[1].removed
    /\ fs[rv_workspace].kind = "repo"

\* C14 (as claimed): when review_pr is over, with no workspace_dir given
\* and cleanup true, the temporary directory setup_workspace created is
\* gone, also when setup_workspace failed after creating it.
C14_TempWorkspaceAlwaysDeleted ==
    ( /\ ReviewOver
      /\ workspace_dir = None
      /\ cleanup
      /\ "mkdtemp" \in RanCmds )
    => fs[TempDir].kind = "absent"

\* C15: when parse_pr_url rejects pr_url, review_pr raises ValueError and
\* setup_workspace has not been called: no directory was created, no
\* command run, nothing cleaned up.
C15_MalformedUrlRejectedBeforeWorkspace ==
    (rpc # "parse" /\ ~parse_pr_url(pr_url).ok) =>
        /\ rpc = "raised"
        /\ rv_error = "ValueError"
        /\ pc = "idle"
        /\ cmds = <<>>
        /\ cleanup_log = <<>>
        /\ fs[TempDir] = Absent
        /\ rv_workspace = None

C15_Witness ==
    /\ rpc = "raised"
    /\ rv_error = "ValueError"
    /\ pr_url = Url(<<"github", ".", "com">>, <<"a", "b", "pull", "a">>)
    /\ parse_pr_url(pr_url).error = "invalid literal for int()"
    /\ pc = "idle"

\* The segments of pr_url's path, and whether a merge_requests segment is
\* among them.
Parts == PathParts(pr_url)
HasMergeRequests == \E i \in DOMAIN Parts : Parts[i] = "merge_requests"

\* Segments that are plain names, and a parsed reference whose owner and
\* repo are made of plain names only.
Names == {"a", "b"}
PlainReference ==
    /\ parsed.ok
    /\ \A i \in DOMAIN parsed.repo : parsed.repo[i] \in Names
    /\ \A i \in DOMAIN parsed.owner : parsed.owner[i] \in Names \cup {"/"}

\* C16 (as claimed): for every URL that resolves (here: to an owner and a
\* repo of plain names), the platform tag agrees with the shape it was
\* parsed through: github with owner/repo/pull/number, gitlab with
\* .../-/merge_requests/number.
C16_PlatformAgreesWithShape ==
    (rpc = "resolved" /\ PlainReference) => rv_platform = parsed.shape

\* C17 (as claimed): a URL is GitLab if its path has a merge_requests
\* segment or its hostname contains gitlab, and GitHub otherwise.
C17_DetectPlatformPrecedence ==
    rpc = "resolved" =>
        rv_platform = IF HasMergeRequests \/ Contains(Hostname(pr_url), <<"gitlab">>)
                      THEN "gitlab"
                      ELSE "github"

\* C17 (amended): a URL is GitLab exactly if its hostname contains gitlab or
\* its path has a "-" segment directly followed by a merge_requests segment
\* that a slash follows; every other URL is GitHub, and none is refused.
C17_DetectPlatformByPattern ==
    rpc = "resolved" =>
        LET segs == pr_url.segs
            pattern == \E i \in DOMAIN segs :
                          /\ segs[i] = "-"
                          /\ i + 2 <= Len(segs)
                          /\ segs[i + 1] = "merge_requests"
        IN  /\ rv_platform \in {"gitlab", "github"}
            /\ rv_platform = "gitlab" <=>
                  (pattern \/ \E j \in DOMAIN pr_url.host :
                                 pr_url.host[j] = "gitlab")

C17_Witness ==
    /\ rpc = "resolved"
    /\ pr_url = Url(<<"example", ".", "com">>, <<"a", "b", "merge_requests", "1">>)
    /\ rv_platform = "github"

\* C18 (as claimed): a URL classified GitLab (here: one that starts with
\* two plain names) whose merge_requests segment is not directly preceded
\* by a "-" segment is rejected, never parsed through the GitHub shape.
C18_MissingDashRejected ==
    ( /\ rpc = "resolved"
      /\ rv_platform = "gitlab"
      /\ Len(Parts) >= 2 /\ Parts[1] \in Names /\ Parts[2] \in Names
      /\ HasMergeRequests
      /\ LET m == Index(Parts, "merge_requests")
         IN  m = 1 \/ Parts[m - 1] # "-" )
    => ~parsed.ok

\* C19 (as claimed): in a URL parsed through the GitLab shape (here: to a
\* repo of a plain name), at least two segments precede merge_requests, the
\* repo is the segment two before merge_requests, and the owner is the
\* "/"-join of all segments before the repo, so it is not the repo segment.
C19_GitLabOwnerIsGroupPath ==
    (rpc = "resolved" /\ PlainReference /\ parsed.shape = "gitlab") =>
        LET m == Index(Parts, "merge_requests")
        IN  /\ m >= 3
            /\ Parts[m - 1] = "-"
            /\ parsed.repo = <<Parts[m - 2]>>
            /\ parsed.owner = Join(SubSeq(Parts, 1, m - 3))

\* C20 (as claimed): a URL is parsed through the GitHub shape (here: to an
\* owner and a repo of plain names) only if its path is exactly
\* owner/repo/pull/number, and then yields those values.
C20_GitHubShapeIsExact ==
    (rpc = "resolved" /\ PlainReference /\ parsed.shape = "github") =>
        /\ Len(Parts) = 4
        /\ Parts[3] = "pull"
        /\ parsed.owner = <<Parts[1]>>
        /\ parsed.repo = <<Parts[2]>>
        /\ IsIntLiteral(Parts[4])
        /\ parsed.pr_number = IntLiterals[Parts[4]]

\* C21 (as claimed): every reference parse_pr_url produces (here: through
\* the GitHub shape, with an owner and a repo of plain names) has a number
\* of at least 1; a number segment "0" never yields a reference.
C21_NumberIsPositive ==
    (rpc = "resolved" /\ PlainReference /\ parsed.shape = "github") =>
        parsed.pr_number >= 1

\* What _detect_ci_workspace returned, once it has.
Detected == <<ci_workspace, detected_target_branch, detected_diff_base_sha>>

\* An environment variable is set: it has a non-empty value, which is what
\* the code's truth tests ask of it.
IsSet(v) == v \notin {None, ""}
IsSetSeq(v) == v \notin {NoneSeq, <<>>}

\* The project path is owner/repo behind some group path and a slash.
NestedUnder(path, expected) ==
    \E n \in 1..Len(path) :
        /\ path[n] = "/"
        /\ n > 1
        /\ SubSeq(path, n + 1, Len(path)) = expected

\* C22 (as claimed): the GitLab CI context is returned exactly when
\* GITLAB_CI is "true", CI_PROJECT_DIR and CI_PROJECT_PATH are set, and the
\* project path equals owner/repo or its text ends with owner/repo.
C22_GitLabCiContextIff ==
    pc = "choose" =>
        ( (ci_workspace # None /\ ci_workspace = env.gl.CI_PROJECT_DIR)
          <=> ( /\ env.gl.GITLAB_CI = "true"
                /\ IsSet(env.gl.CI_PROJECT_DIR)
                /\ IsSetSeq(env.gl.CI_PROJECT_PATH)
                /\ \/ env.gl.CI_PROJECT_PATH = ExpectedPath
                   \/ EndsWith(env.gl.CI_PROJECT_PATH, ExpectedPath) ) )

\* The GitLab CI branch's condition, with the suffix at a segment boundary.
GitLabCiCondition ==
    /\ env.gl.GITLAB_CI = "true"
    /\ IsSet(env.gl.CI_PROJECT_DIR)
    /\ IsSetSeq(env.gl.CI_PROJECT_PATH)
    /\ \/ env.gl.CI_PROJECT_PATH = ExpectedPath
       \/ NestedUnder(env.gl.CI_PROJECT_PATH, ExpectedPath)

\* C22 (amended): the GitLab CI context is returned exactly when GITLAB_CI
\* is "true", CI_PROJECT_DIR and CI_PROJECT_PATH are non-empty, and the
\* project path is owner/repo or ends with "/" and owner/repo; it is then
\* the project directory with the target-branch and diff-base variables as
\* they are (None when unset).
C22_GitLabCiContextIffAtSegment ==
    pc = "choose" =>
        /\ (ci_workspace # None /\ ci_workspace = env.gl.CI_PROJECT_DIR)
              <=> GitLabCiCondition
        /\ GitLabCiCondition =>
              Detected = <<env.gl.CI_PROJECT_DIR,
                           env.gl.CI_MERGE_REQUEST_TARGET_BRANCH_NAME,
                           env.gl.CI_MERGE_REQUEST_DIFF_BASE_SHA>>

C22_Witness ==
    /\ pc = "choose"
    /\ env.gl.GITLAB_CI = "true"
    /\ env.gl.CI_PROJECT_DIR = GitLabCiDir
    /\ env.gl.CI_PROJECT_PATH = <<"g">> \o ExpectedPath
    /\ env.gh = NoGitHubEnv
    /\ Detected = <<None, None, None>>

\* C23: when the GitLab CI branch does not match, the GitHub Actions
\* context (GITHUB_WORKSPACE, GITHUB_BASE_REF, no diff base) is returned
\* exactly when GITHUB_ACTIONS is "true", GITHUB_WORKSPACE is set and
\* GITHUB_REPOSITORY is exactly owner/repo; otherwise (None, None, None)
\* is returned, also when a CI marker is set for another repository.
C23_GitHubActionsContextIff ==
    (pc = "choose" /\ ~GitLabCiCondition) =>
        LET matches == /\ env.gh.GITHUB_ACTIONS = "true"
                       /\ IsSet(env.gh.GITHUB_WORKSPACE)
                       /\ env.gh.GITHUB_REPOSITORY = ExpectedPath
        IN  /\ matches =>
                Detected = <<env.gh.GITHUB_WORKSPACE, env.gh.GITHUB_BASE_REF, None>>
            /\ ~matches => Detected = <<None, None, None>>

C23_Witness ==
    /\ pc = "choose"
    /\ env.gl.GITLAB_CI = "true"
    /\ env.gl.CI_PROJECT_DIR = GitLabCiDir
    /\ env.gl.CI_PROJECT_PATH = <<"z", "/">> \o Repo
    /\ env.gl.CI_MERGE_REQUEST_DIFF_BASE_SHA = "sha"
    /\ env.gh.GITHUB_ACTIONS = "true"
    /\ env.gh.GITHUB_REPOSITORY = ExpectedPath
    /\ Detected = <<GitHubWsDir, "gh_base", None>>

\* C24: the clone and the metadata query go to the host argument when one
\* is given, else to the environment's GITLAB_HOST when it is set, else to
\* gitlab.com; within one invocation both go to the same host.
C24_GitLabHostResolution ==
    LET expected == IF host \notin {NoneSeq, <<>>} THEN host
                    ELSE IF env_gitlab_host # NoneSeq THEN env_gitlab_host
                    ELSE <<"gitlab", ".", "com">>
    IN  /\ "git clone" \in RanCmds <=> used_host.clone # NoneSeq
        /\ "glab mr view" \in RanCmds <=> used_host.query # NoneSeq
        /\ used_host.clone # NoneSeq => used_host.clone = expected
        /\ used_host.query # NoneSeq =>
              used_host.query = expected /\ used_host.query = used_host.clone

C24_Witness ==
    /\ pc = "returned"
    /\ host = NoneSeq
    /\ env_gitlab_host = <<"env", ".", "host">>
    /\ used_host = [clone |-> <<"env", ".", "host">>,
                    query |-> <<"env", ".", "host">>]


\* C25: parse_review_output never fails: whatever the text, it gives a
\* ReviewOutputEvent, from the whole text as JSON, else from the slice
\* between the first "{" and the last "}", else one that wraps the text.
\* Stated for a text that is one JSON object.
C25_ParseReviewOutputNeverFails ==
    (review_event.kind # "none" /\ json_loads(review_text).type = "dict")
        => review_event.kind = "event"


InsideChdir ==
    pc \in {"gh_pr_checkout", "gh_pr_view", "glab_mr_view", "git_fetch_all",
            "git_checkout_b", "git_checkout"}
CloneSucceeded ==
    \E i \in DOMAIN cmds : cmds[i].cmd \in CloneCmds /\ cmds[i].ok

\* C27: setup_workspace leaves the process working directory as it was:
\* once a helper has returned or raised, at whatever step, the current
\* directory is the one at entry; it is the workspace only after a clone
\* that succeeded and until the checkout and metadata steps are over.
C27_WorkingDirectoryRestored ==
    /\ (Finished \/ pc = "finish") => cwd = "orig"
    /\ cwd # "orig" => (InsideChdir /\ cwd = workspace /\ CloneSucceeded)
    /\ InsideChdir => cwd = workspace

C27_Witness ==
    /\ pc = "raised"
    /\ cwd = "orig"
    /\ platform = "gitlab"
    /\ cmds[Len(cmds)] = [cmd |-> "git checkout", ok |-> FALSE]
    /\ CloneSucceeded


\* A reuse miss: outside CI, working_dir was given and was not taken as a
\* clone of the requested repository.
ReuseMiss ==
    /\ ci_workspace = None
    /\ working_dir # None
    /\ origin = "FRESH_CLONE"
VersionCmds == {"gh version", "glab version"}
SucceededCmds == {cmds[i].cmd : i \in {j \in DOMAIN cmds : cmds[j].ok}}

\* C28: on a reuse miss setup_workspace raises no error of its own about
\* the directory (short of a clone that succeeded it raises only for an
\* unsupported platform or a failed tool check or clone), runs no git fetch
\* origin and no fetch before the clone, and, once the tool check has
\* passed, runs the platform's clone command with working_dir as
\* destination; what the directory held stays in place (a clone into a
\* directory that is not empty fails).
C28_ReuseMissGoesOnToClone ==
    /\ [](ReuseMiss =>
            /\ workspace = working_dir
            /\ "git fetch origin" \notin RanCmds
            /\ (RanCmds \cap CloneCmds = {} => RanCmds \cap FetchCmds = {})
            /\ (pc = "raised" /\ ~CloneSucceeded) =>
                  \/ platform \notin {"github", "gitlab"}
                  \/ /\ cmds[Len(cmds)].cmd \in VersionCmds \cup CloneCmds
                     /\ ~cmds[Len(cmds)].ok
            /\ (SucceededCmds \cap VersionCmds # {}) =>
                  \/ pc \in {"gh_clone", "git_clone"}
                  \/ RanCmds \cap CloneCmds # {}
            /\ (Finished /\ platform \in {"github", "gitlab"}) =>
                  RanCmds \cap VersionCmds # {})
    /\ [][(ReuseMiss /\ ~CloneSucceeded /\ ~CanClone(fs[working_dir])) =>
             fs'[working_dir] = fs[working_dir]]_vars

C28_Witness ==
    /\ ReuseMiss
    /\ reuse
    /\ pc = "raised"
    /\ fs[working_dir] = RepoDir(OtherUrl, 0)
    /\ cmds[Len(cmds)] = [cmd |-> "git clone", ok |-> FALSE]


\* The external steps of _setup_gitlab_workspace, in the order of the code.
GitLabSteps ==
    <<"glab version", "git clone", "glab mr view", "git fetch --all",
      "git checkout -b", "git checkout">>
StepOf(c) == CHOOSE k \in DOMAIN GitLabSteps : GitLabSteps[k] = c
StepsRun ==
    {i \in DOMAIN cmds :
        \E k \in DOMAIN GitLabSteps : GitLabSteps[k] = cmds[i].cmd}
AbortingSteps == {"glab version", "git clone", "glab mr view"}

\* C29: _setup_gitlab_workspace runs its external steps in the order tool
\* check, clone, metadata query, git fetch --all, checkout attempts, none
\* before the one ahead of it has run; a failed tool check, clone or
\* metadata query is the last step run and the setup has raised; a failed
\* git fetch --all is followed by the first checkout attempt.
C29_GitLabStepOrder ==
    /\ \A i, j \in StepsRun :
          i < j => StepOf(cmds[i].cmd) < StepOf(cmds[j].cmd)
    /\ \A i \in StepsRun :
          StepOf(cmds[i].cmd) > 1 =>
             /\ i - 1 \in StepsRun
             /\ StepOf(cmds[i - 1].cmd) = StepOf(cmds[i].cmd) - 1
    /\ \A i \in StepsRun :
          (cmds[i].cmd \in AbortingSteps /\ ~cmds[i].ok) =>
             (i = Len(cmds) /\ pc = "raised")
    /\ \A i \in StepsRun :
          (cmds[i].cmd = "git fetch --all" /\ ~cmds[i].ok) =>
             \/ pc = "git_checkout_b"
             \/ /\ i < Len(cmds)
                /\ cmds[i + 1].cmd = "git checkout -b"

\* A failed git fetch --all, and the setup has succeeded.
C29_Witness ==
    /\ pc = "returned"
    /\ result.kind = "returned"
    /\ \E i \in DOMAIN cmds :
          cmds[i] = [cmd |-> "git fetch --all", ok |-> FALSE]
    /\ cmds[Len(cmds)] = [cmd |-> "git checkout -b", ok |-> TRUE]


====
